---- MODULE Spec2Model ----
(***************************************************************************)
(* A model of app/app.py of docker-weather: the per-location weather       *)
(* cache (get_weather_for_location and the upstream fetch                  *)
(* _get_weather_data_for_coords), the normalisation of an upstream payload *)
(* (process_weather_data, safe_extract_pop) and the parser of the          *)
(* LOCATIONS configuration (_parse_locations).                             *)
(*                                                                         *)
(* Python values are modelled as follows.  A dict is a function whose      *)
(* domain is its set of keys (the empty dict is << >>), a list is a        *)
(* sequence, and a value held in a dict is a tagged record: Num(n),        *)
(* Str(s), Null, List(sequence), Dict(dict), ...                           *)
(* A Python str that the code takes apart (an environment value) is a      *)
(* sequence of one-character strings.  A call that may raise returns       *)
(* either Ok(value) or Raise(exception name).                              *)
(***************************************************************************)
EXTENDS Integers, Sequences, FiniteSets, TLC

VARIABLES
    env,        \* os.environ: a function from the names that are set to their values
    cache,      \* _location_cache: (lat, lon) -> {"raw", "last_updated"}
    clock,      \* datetime.utcnow(), in seconds
    ticks,      \* how many times the clock has advanced (bounds the model)
    th,         \* per request thread: its position in get_weather_for_location and its locals
    fetchCount, \* history: per key, the calls of _get_weather_data_for_coords so far
    lastFetch,  \* history: per key, the payload and timestamp of the latest such call
    upstream,   \* history: the <<key, payload>> pairs the upstream API has answered with
    ncalls,     \* how many get_weather_for_location calls have started (bounds the model)
    payload,    \* the argument of process_weather_data in the normalisation runs
    result,     \* what process_weather_data did with it
    hourData,   \* the argument of safe_extract_pop in the normalisation runs
    popResult,  \* what safe_extract_pop did with it
    locations   \* what _parse_locations did with env

vars == <<env, cache, clock, ticks, th, fetchCount, lastFetch, upstream, ncalls,
          payload, result, hourData, popResult, locations>>

cacheVars == <<cache, clock, ticks, th, fetchCount, lastFetch, upstream, ncalls>>
normVars == <<payload, result, hourData, popResult>>

----------------------------------------------------------------------------
(* Bounds of the model *)

MaxCalls == 3
MaxTicks == 2
MaxListLen == 38
MaxRawLen == 4
MaxPopNum == 20
MaxConcCalls == 2
MaxConcTicks == 2

----------------------------------------------------------------------------
(* Python values *)

Num(n) == [t |-> "num", v |-> n]
Str(s) == [t |-> "str", v |-> s]
Null == [t |-> "null"]
List(l) == [t |-> "list", v |-> l]
Dict(d) == [t |-> "dict", v |-> d]
None == [t |-> "None"]
NotRun == [t |-> "not run"]
EmptyDict == << >>

Ok(v) == [ok |-> TRUE, value |-> v]
Raise(e) == [ok |-> FALSE, exc |-> e]

\* dict.get(key, default)
Get(d, k, default) ==
    IF d = EmptyDict THEN default ELSE IF k \in DOMAIN d THEN d[k] ELSE default

Min(a, b) == IF a < b THEN a ELSE b
Max(a, b) == IF a > b THEN a ELSE b

----------------------------------------------------------------------------
(* str.strip() and int(str) on a string given as a sequence of characters *)

Digits == <<"0", "1", "2", "3", "4", "5", "6", "7", "8", "9">>

IsDigit(c) == \E i \in 1..10 : Digits[i] = c

DigitValue(c) == (CHOOSE i \in 1..10 : Digits[i] = c) - 1

IsSpace(c) == c = " "

RECURSIVE LStrip(_)
LStrip(s) == IF s # << >> /\ IsSpace(Head(s)) THEN LStrip(Tail(s)) ELSE s

RECURSIVE RStrip(_)
RStrip(s) ==
    IF s # << >> /\ IsSpace(s[Len(s)]) THEN RStrip(SubSeq(s, 1, Len(s) - 1)) ELSE s

Strip(s) == RStrip(LStrip(s))

RECURSIVE DigitsValue(_)
DigitsValue(s) ==
    IF s = << >> THEN 0
    ELSE 10 * DigitsValue(SubSeq(s, 1, Len(s) - 1)) + DigitValue(s[Len(s)])

\* int(s): optional surrounding whitespace, an optional sign, then digits only
ParseInt(s) ==
    LET b == Strip(s)
        signed == b # << >> /\ Head(b) \in {"-", "+"}
        ds == IF signed THEN Tail(b) ELSE b
    IN  IF ds = << >> \/ \E i \in 1..Len(ds) : ~IsDigit(ds[i])
        THEN Raise("ValueError")
        ELSE Ok(IF signed /\ Head(b) = "-" THEN 0 - DigitsValue(ds) ELSE DigitsValue(ds))

----------------------------------------------------------------------------
(* Configuration *)

DefaultRefresh == 600

\* os.getenv(name, default)
getenv(name, default) == Get(env, name, default)

_get_refresh_interval ==
    LET r == ParseInt(getenv("REFRESH_INTERVAL_SECONDS", <<"6", "0", "0">>))
    IN  IF r.ok THEN r.value ELSE DefaultRefresh

----------------------------------------------------------------------------
(* Normalisation: safe_extract_pop *)

\* A float n / PopDenom. With PopDenom a power of two these floats and their
\* products with 100 are exact in IEEE-754 doubles, so exact arithmetic is float
\* arithmetic.
PopDenom == 2 * 2 * 2
Frac(n) == [t |-> "frac", v |-> n]
Bool(b) == [t |-> "bool", v |-> b]
Inf == [t |-> "inf"]
NaN == [t |-> "nan"]
Callable == [t |-> "callable"]

\* bool(x) is False
Falsy(x) ==
    \/ x \in {None, Null}
    \/ x.t \in {"list", "dict"} /\ x.v = << >>
    \/ x.t \in {"num", "frac"} /\ x.v = 0
    \/ x.t = "str" /\ x.v = ""
    \/ x.t = "bool" /\ ~x.v

\* float(str): the strings of the model that Python parses as a float
FloatOfStr(s) ==
    CASE s = "0.5" -> Ok(Frac(PopDenom \div 2))
      [] s = "1" -> Ok(Frac(PopDenom))
      [] s = "inf" -> Ok(Inf)
      [] s = "nan" -> Ok(NaN)
      [] OTHER -> Raise("ValueError")

\* float(x), as a Frac, Inf or NaN
Float(x) ==
    CASE x.t = "num" -> Ok(Frac(x.v * PopDenom))
      [] x.t = "frac" -> Ok(x)
      [] x.t \in {"inf", "nan"} -> Ok(x)
      [] x.t = "bool" -> Ok(Frac(IF x.v THEN PopDenom ELSE 0))
      [] x.t = "str" -> FloatOfStr(x.v)
      [] OTHER -> Raise("TypeError")

\* a \div b rounded toward zero, b > 0
TruncDiv(a, b) == IF a >= 0 THEN a \div b ELSE 0 - ((0 - a) \div b)

\* IntTimes100 rounding to the nearest integer instead of toward zero
IntTimes100Rounded(f) ==
    CASE f.t = "inf" -> Raise("OverflowError")
      [] f.t = "nan" -> Raise("ValueError")
      [] OTHER -> Ok(TruncDiv(2 * f.v * 100 + PopDenom, 2 * PopDenom))

\* int(f * 100)
IntTimes100(f) ==
    CASE f.t = "inf" -> Raise("OverflowError")
      [] f.t = "nan" -> Raise("ValueError")
      [] OTHER -> Ok(TruncDiv(f.v * 100, PopDenom))

safe_extract_pop(hour_data) ==
    LET pop == Get(hour_data, "pop", None)
        f == IF Falsy(pop) THEN Float(Num(0)) ELSE Float(pop)
        n == IntTimes100(f.value)
    IN  IF pop.t = "callable" THEN Min(100, Max(0, 0 * 100))
        ELSE IF ~f.ok THEN 0
        ELSE IF ~n.ok THEN 0
        ELSE Min(100, Max(0, n.value))

----------------------------------------------------------------------------
(* Normalisation: process_weather_data *)

MaxHourly == 36
MaxDaily == 10

NA == Str("N/A")

\* datetime.fromtimestamp(ts).strftime(fmt), with the host's time zone taken as
\* UTC and the calendar date left as the day number since the epoch
Strftime(ts, fmt) ==
    IF ts.t # "num" THEN Raise("TypeError")
    ELSE LET hm == [H |-> (ts.v \div 3600) % 24, M |-> (ts.v \div 60) % 60]
             day == ts.v \div 86400
         IN  CASE fmt = "%H:%M %d.%m.%Y" -> Ok([fmt |-> fmt, H |-> hm.H, M |-> hm.M, day |-> day])
               [] fmt = "%H:%M" -> Ok([fmt |-> fmt, H |-> hm.H, M |-> hm.M])
               [] fmt = "%a %d.%m" -> Ok([fmt |-> fmt, a |-> (day + 4) % 7, day |-> day])

\* x.get("weather", [{}])[0].get(field, default)
WeatherField(x, field, default) ==
    LET w == Get(x, "weather", List(<<EmptyDict>>)).v
    IN  IF Len(w) = 0 THEN Raise("IndexError") ELSE Ok(Get(w[1], field, default))

\* {k: v for k, v in entry.items() if not callable(v)}
WithoutCallables(entry) ==
    [k \in {j \in DOMAIN entry : entry[j].t # "callable"} |-> entry[k]]

ProcessCurrent(current) ==
    LET weather == WeatherField(current, "main", NA)
        icon == WeatherField(current, "icon", Str(""))
        time == Strftime(Get(current, "dt", Num(0)), "%H:%M %d.%m.%Y")
    IN  IF ~weather.ok THEN weather
        ELSE IF ~icon.ok THEN icon
        ELSE IF ~time.ok THEN time
        ELSE Ok([temp |-> Get(current, "temp", NA),
                 feels_like |-> Get(current, "feels_like", NA),
                 humidity |-> Get(current, "humidity", NA),
                 pressure |-> Get(current, "pressure", NA),
                 uvi |-> Get(current, "uvi", NA),
                 wind_speed |-> Get(current, "wind_speed", NA),
                 weather |-> weather.value,
                 icon |-> icon.value,
                 time |-> time.value])

ProcessHour(hour) ==
    LET hour_copy == WithoutCallables(hour)
        time == Strftime(Get(hour_copy, "dt", Num(0)), "%H:%M")
        weather == WeatherField(hour_copy, "main", NA)
        icon == WeatherField(hour_copy, "icon", Str(""))
    IN  IF ~time.ok THEN time
        ELSE IF ~weather.ok THEN weather
        ELSE IF ~icon.ok THEN icon
        ELSE Ok([time |-> time.value,
                 temp |-> Get(hour_copy, "temp", NA),
                 humidity |-> Get(hour_copy, "humidity", NA),
                 wind_speed |-> Get(hour_copy, "wind_speed", NA),
                 weather |-> weather.value,
                 icon |-> icon.value,
                 pop |-> safe_extract_pop(hour_copy)])

ProcessDay(day) ==
    LET day_copy == WithoutCallables(day)
        t == Get(day_copy, "temp", Dict(EmptyDict))
        temps == IF Falsy(t) THEN EmptyDict ELSE t.v
        date == Strftime(Get(day_copy, "dt", Num(0)), "%a %d.%m")
        weather == WeatherField(day_copy, "main", NA)
        icon == WeatherField(day_copy, "icon", Str(""))
    IN  IF ~date.ok THEN date
        ELSE IF ~weather.ok THEN weather
        ELSE IF ~icon.ok THEN icon
        ELSE Ok([date |-> date.value,
                 temp_min |-> Get(temps, "min", NA),
                 temp_max |-> Get(temps, "max", NA),
                 weather |-> weather.value,
                 icon |-> icon.value,
                 pop |-> safe_extract_pop(day_copy)])

\* list[:n]
Prefix(list, n) == SubSeq(list, 1, Min(Len(list), n))

\* for entry in entries: out.append(...), given what each pass of the loop body
\* comes to: the first exception ends the loop
ProcessAll(rs) ==
    LET bad == {i \in 1..Len(rs) : ~rs[i].ok}
    IN  IF bad # {} THEN rs[CHOOSE i \in bad : \A j \in bad : i <= j]
        ELSE Ok([i \in 1..Len(rs) |-> rs[i].value])

process_weather_data(data) ==
    IF data = EmptyDict
    THEN Ok([current |-> EmptyDict, hourly |-> << >>, daily |-> << >>])
    ELSE LET current == ProcessCurrent(Get(data, "current", Dict(EmptyDict)).v)
             hours == Prefix(Get(data, "hourly", List(<< >>)).v, MaxHourly)
             days == Prefix(Get(data, "daily", List(<< >>)).v, MaxDaily)
             hourly == ProcessAll([i \in 1..Len(hours) |-> ProcessHour(hours[i])])
             daily == ProcessAll([i \in 1..Len(days) |-> ProcessDay(days[i])])
         IN  IF ~current.ok THEN current
             ELSE IF ~hourly.ok THEN hourly
             ELSE IF ~daily.ok THEN daily
             ELSE Ok([current |-> current.value,
                      hourly |-> hourly.value,
                      daily |-> daily.value])

----------------------------------------------------------------------------
(* The weather cache: state *)

Threads == {1, 2}
SerialThreads == {1}

Lats == {"47.0", "47.00", "abc"}
Lons == {"10.0"}
Keys == Lats \X Lons

\* What the request to the upstream API can end in
Outcomes == {"ok", "timeout", "network error", "http 500"}

\* The exception an outcome makes requests.get / raise_for_status raise
ExceptionOf(outcome) ==
    CASE outcome = "timeout" -> "Timeout"
      [] outcome = "network error" -> "ConnectionError"
      [] outcome = "http 500" -> "HTTPError"

\* RequestExceptions as if the handler caught connection errors only
ConnectionErrorsOnly == {"Timeout", "ConnectionError"}

\* The subclasses of requests.exceptions.RequestException among them
RequestExceptions == {"Timeout", "ConnectionError", "HTTPError"}

\* The JSON body the upstream API answers with for (lat, lon) at time `at`
UpstreamPayload(lat, lon, at) ==
    [lat |-> Str(lat), lon |-> Str(lon), current |-> Dict([dt |-> Num(at), temp |-> Num(at % 7)])]

Idle ==
    [pc |-> "idle", lat |-> "", lon |-> "", refresh_interval |-> 0, cached |-> None,
     now |-> 0, raw |-> None, ret |-> None, fetched |-> FALSE, sent |-> FALSE,
     outcome |-> "none", startCount |-> 0, prev |-> None]

KeyOf(t) == <<th[t].lat, th[t].lon>>

\* The environments of the cache runs
ApiKeyValues == {<<"k">>, << >>}
RefreshValues == {<<"2">>, <<"x">>}

CacheEnvs ==
    {e \in UNION {[D -> ApiKeyValues \cup RefreshValues] :
                    D \in SUBSET {"API_KEY", "REFRESH_INTERVAL_SECONDS"}} :
        /\ "API_KEY" \in DOMAIN e => e["API_KEY"] \in ApiKeyValues
        /\ "REFRESH_INTERVAL_SECONDS" \in DOMAIN e
              => e["REFRESH_INTERVAL_SECONDS"] \in RefreshValues}

\* How far the clock moves in one step
TickSteps == {1, DefaultRefresh}

InitCache ==
    /\ cache = EmptyDict
    /\ clock = 0
    /\ ticks = 0
    /\ th = [t \in Threads |-> Idle]
    /\ fetchCount = [k \in Keys |-> 0]
    /\ lastFetch = [k \in Keys |-> None]
    /\ upstream = {}
    /\ ncalls = 0

InitNormIdle ==
    /\ payload = EmptyDict
    /\ result = NotRun
    /\ hourData = EmptyDict
    /\ popResult = NotRun

----------------------------------------------------------------------------
(* The weather cache: get_weather_for_location, step by step *)

\* cache_key = (lat, lon); refresh_interval = _get_refresh_interval()
Call(t, lat, lon) ==
    /\ th[t].pc = "idle"
    /\ ncalls < MaxCalls
    /\ ncalls' = ncalls + 1
    /\ th' = [th EXCEPT ![t] = [Idle EXCEPT !.pc = "lookup", !.lat = lat, !.lon = lon,
                                   !.refresh_interval = _get_refresh_interval,
                                   !.startCount = fetchCount[<<lat, lon>>],
                                   !.prev = lastFetch[<<lat, lon>>]]]
    /\ UNCHANGED <<env, cache, clock, ticks, fetchCount, lastFetch, upstream, locations>>
    /\ UNCHANGED normVars

\* cached = _location_cache.get(cache_key)
Lookup(t) ==
    /\ th[t].pc = "lookup"
    /\ th' = [th EXCEPT ![t].cached = Get(cache, KeyOf(t), None), ![t].pc = "check"]
    /\ UNCHANGED <<env, cache, clock, ticks, fetchCount, lastFetch, upstream, ncalls, locations>>
    /\ UNCHANGED normVars

\* Fresh with the comparison off by one: an entry exactly refresh_interval old
\* still counts as fresh
FreshInclusive(cached, now, refresh_interval) ==
    /\ cached # None
    /\ now - cached.last_updated <= refresh_interval

\* now - last_updated < timedelta(seconds=refresh_interval)
Fresh(cached, now, refresh_interval) ==
    /\ cached # None
    /\ now - cached.last_updated < refresh_interval

\* now = datetime.utcnow(); return the cached payload if it is fresh
Check(t) ==
    /\ th[t].pc = "check"
    /\ IF Fresh(th[t].cached, clock, th[t].refresh_interval)
       THEN th' = [th EXCEPT ![t].now = clock, ![t].pc = "done",
                             ![t].ret = Get(th[t].cached, "raw", EmptyDict)]
       ELSE th' = [th EXCEPT ![t].now = clock, ![t].pc = "fetch"]
    /\ UNCHANGED <<env, cache, clock, ticks, fetchCount, lastFetch, upstream, ncalls, locations>>
    /\ UNCHANGED normVars

\* not api_key
ApiKeyMissing == "API_KEY" \notin DOMAIN env \/ env["API_KEY"] = << >>

\* ShortCircuit without the API key check: the request is always sent
ShortCircuitNever(lat, lon) == None

\* What _get_weather_data_for_coords returns without a request, if anything
ShortCircuit(lat, lon) == IF ApiKeyMissing THEN Ok(EmptyDict) ELSE None

\* _get_weather_data_for_coords up to requests.get
FetchBegin(t) ==
    /\ th[t].pc = "fetch"
    /\ fetchCount' = [fetchCount EXCEPT ![KeyOf(t)] = @ + 1]
    /\ LET early == ShortCircuit(th[t].lat, th[t].lon)
       IN  IF early # None
           THEN /\ th' = [th EXCEPT ![t].fetched = TRUE, ![t].raw = early.value,
                                    ![t].outcome = "not sent", ![t].pc = "store"]
                /\ lastFetch' = [lastFetch EXCEPT
                                   ![KeyOf(t)] = [raw |-> early.value, at |-> th[t].now]]
                /\ upstream' = upstream \cup {<<KeyOf(t), early.value, th[t].now>>}
           ELSE /\ th' = [th EXCEPT ![t].fetched = TRUE, ![t].sent = TRUE, ![t].pc = "await"]
                /\ UNCHANGED <<lastFetch, upstream>>
    /\ UNCHANGED <<env, cache, clock, ticks, ncalls, locations>>
    /\ UNCHANGED normVars

\* What the try block of _get_weather_data_for_coords makes of the request's outcome
Response(lat, lon, outcome) ==
    IF outcome = "ok" THEN Ok(UpstreamPayload(lat, lon, clock))
    ELSE IF ExceptionOf(outcome) = "Timeout" THEN Ok(EmptyDict)
    ELSE IF ExceptionOf(outcome) \in RequestExceptions THEN Ok(EmptyDict)
    ELSE Raise(ExceptionOf(outcome))

\* requests.get returns or raises; _get_weather_data_for_coords returns
FetchEnd(t, outcome) ==
    /\ th[t].pc = "await"
    /\ LET r == Response(th[t].lat, th[t].lon, outcome)
       IN  IF r.ok
           THEN /\ th' = [th EXCEPT ![t].raw = r.value, ![t].outcome = outcome,
                                    ![t].pc = "store"]
                /\ lastFetch' = [lastFetch EXCEPT
                                   ![KeyOf(t)] = [raw |-> r.value, at |-> th[t].now]]
                /\ upstream' = upstream \cup {<<KeyOf(t), r.value, th[t].now>>}
           ELSE /\ th' = [th EXCEPT ![t].outcome = outcome, ![t].pc = "raised"]
                /\ UNCHANGED <<lastFetch, upstream>>
    /\ UNCHANGED <<env, cache, clock, ticks, fetchCount, ncalls, locations>>
    /\ UNCHANGED normVars

\* Stored that caches successful fetches only
StoredUnlessEmpty(c, key, raw, now) ==
    IF raw = EmptyDict THEN c
    ELSE [k \in DOMAIN c \cup {key} |->
            IF k = key THEN [raw |-> raw, last_updated |-> now] ELSE c[k]]

\* Stored that refreshes the payload of an existing entry and leaves its timestamp
StoredTorn(c, key, raw, now) ==
    [k \in DOMAIN c \cup {key} |->
        IF k # key THEN c[k]
        ELSE IF c # EmptyDict /\ key \in DOMAIN c
             THEN [raw |-> raw, last_updated |-> c[key].last_updated]
             ELSE [raw |-> raw, last_updated |-> now]]

\* Stored under a key with the latitude's trailing zero dropped
StoredNormalized(c, key, raw, now) ==
    LET nkey == IF key[1] = "47.00" THEN <<"47.0", key[2]>> ELSE key
    IN  [k \in DOMAIN c \cup {nkey} |->
            IF k = nkey THEN [raw |-> raw, last_updated |-> now] ELSE c[k]]

\* _location_cache[cache_key] = {"raw": raw, "last_updated": now}
Stored(c, key, raw, now) ==
    [k \in DOMAIN c \cup {key} |->
        IF k = key THEN [raw |-> raw, last_updated |-> now] ELSE c[k]]

\* the cache write, and return raw
Store(t) ==
    /\ th[t].pc = "store"
    /\ cache' = Stored(cache, KeyOf(t), th[t].raw, th[t].now)
    /\ th' = [th EXCEPT ![t].ret = th[t].raw, ![t].pc = "done"]
    /\ UNCHANGED <<env, clock, ticks, fetchCount, lastFetch, upstream, ncalls, locations>>
    /\ UNCHANGED normVars

\* get_weather_for_location has returned or raised: the request ends and the
\* thread's locals are gone
Finish(t) ==
    /\ th[t].pc \in {"done", "raised"}
    /\ th' = [th EXCEPT ![t] = Idle]
    /\ UNCHANGED <<env, cache, clock, ticks, fetchCount, lastFetch, upstream, ncalls, locations>>
    /\ UNCHANGED normVars

\* time passes
Tick(d) ==
    /\ ticks < MaxTicks
    /\ ticks' = ticks + 1
    /\ clock' = clock + d
    /\ UNCHANGED <<env, cache, th, fetchCount, lastFetch, upstream, ncalls, locations>>
    /\ UNCHANGED normVars

\* One request at a time
SerialCall(t, lat, lon) ==
    /\ \A u \in Threads : th[u].pc = "idle"
    /\ Call(t, lat, lon)

Init ==
    /\ env \in CacheEnvs
    /\ InitCache
    /\ InitNormIdle
    /\ locations = NotRun

Next ==
    \/ \E d \in TickSteps : Tick(d)
    \/ \E t \in SerialThreads, lat \in Lats, lon \in Lons : SerialCall(t, lat, lon)
    \/ \E t \in SerialThreads : Lookup(t)
    \/ \E t \in SerialThreads : Check(t)
    \/ \E t \in SerialThreads : FetchBegin(t)
    \/ \E t \in SerialThreads, o \in Outcomes : FetchEnd(t, o)
    \/ \E t \in SerialThreads : Store(t)
    \/ \E t \in SerialThreads : Finish(t)

\* Requests handled one at a time
Spec == Init /\ [][Next]_vars

----------------------------------------------------------------------------
(* Concurrent requests on the shared cache *)

ConcEnvs == {e \in CacheEnvs : DOMAIN e = {"API_KEY", "REFRESH_INTERVAL_SECONDS"}
                                /\ e["REFRESH_INTERVAL_SECONDS"] = <<"2">>}

ConcLats == {"47.0", "47.00"}
ConcOutcomes == {"ok", "timeout"}
ConcTickSteps == {1}

InitConc ==
    /\ env \in ConcEnvs
    /\ InitCache
    /\ InitNormIdle
    /\ locations = NotRun

NextConc ==
    \/ \E d \in ConcTickSteps : ticks < MaxConcTicks /\ Tick(d)
    \/ \E t \in Threads, lat \in ConcLats, lon \in Lons :
          ncalls < MaxConcCalls /\ Call(t, lat, lon)
    \/ \E t \in Threads : Lookup(t)
    \/ \E t \in Threads : Check(t)
    \/ \E t \in Threads : FetchBegin(t)
    \/ \E t \in Threads, o \in ConcOutcomes : FetchEnd(t, o)
    \/ \E t \in Threads : Store(t)
    \/ \E t \in Threads : Finish(t)

\* Requests handled by concurrent threads
SpecConc == InitConc /\ [][NextConc]_vars

----------------------------------------------------------------------------
(* Normalisation runs: process_weather_data and safe_extract_pop on the      *)
(* payloads and entries below                                                *)

WeatherValues ==
    { List(<< >>),
      List(<<EmptyDict>>),
      List(<<[main |-> Str("Rain"), icon |-> Str("10d")]>>),
      List(<<[main |-> Str("Clouds")], [main |-> Str("Rain"), icon |-> Str("10d")]>>) }

TempValues ==
    {Null, Dict(EmptyDict), Dict([min |-> Num(1)]), Dict([min |-> Num(1), max |-> Num(9)])}

\* The values of pop in the entries of a payload: 0.75, 1.5, null, a word
EntryPops == {Frac((3 * PopDenom) \div 4), Frac((3 * PopDenom) \div 2), Null, Str("abc")}

\* The values of pop that safe_extract_pop is run on
PopValues ==
    {Frac(n) : n \in (0 - MaxPopNum)..MaxPopNum}
      \cup {Num(n) : n \in -1..2}
      \cup {Str(w) : w \in {"", "abc", "0.5", "1", "inf", "nan"}}
      \cup {Bool(TRUE), Bool(FALSE), Null, Inf, NaN, Callable, List(<< >>),
            List(<<Num(1)>>), Dict(EmptyDict)}

CurrentFields ==
    {"temp", "feels_like", "humidity", "pressure", "uvi", "wind_speed", "weather", "dt"}
HourFields == {"dt", "temp", "humidity", "wind_speed", "weather", "pop"}
DayFields == {"dt", "temp", "weather", "pop"}

\* The i-th entry of a list: the fields in `has`, with the given weather, pop and
\* (for a day) temp, and a time and a number that tell the entries apart
Entry(has, weather, pop, temp, i) ==
    [k \in has |->
        CASE k = "dt" -> Num(3600 * i)
          [] k = "weather" -> weather
          [] k = "pop" -> pop
          [] k = "temp" -> temp
          [] OTHER -> Num(i)]

CurrentDicts ==
    {Entry(has, w, Null, Num(21), 7) : has \in SUBSET CurrentFields, w \in WeatherValues}

HourLists ==
    {[i \in 1..n |-> Entry(has, w, p, Num(i), i)] :
        n \in 0..MaxListLen, has \in SUBSET HourFields, w \in WeatherValues, p \in EntryPops}

DayLists ==
    {[i \in 1..n |-> Entry(has, w, p, t, i)] :
        n \in 0..MaxListLen, has \in SUBSET DayFields, w \in WeatherValues,
        p \in EntryPops, t \in TempValues}

Payloads ==
    {EmptyDict, [timezone |-> Str("UTC")]}
      \cup {[current |-> Dict(c)] : c \in CurrentDicts}
      \cup {[hourly |-> List(h)] : h \in HourLists}
      \cup {[current |-> Dict([dt |-> Num(60)]), daily |-> List(d)] : d \in DayLists}

HourDatas == {EmptyDict} \cup {[pop |-> p] : p \in PopValues}

InitNorm ==
    /\ env = EmptyDict
    /\ InitCache
    /\ locations = NotRun
    /\ result = NotRun
    /\ popResult = NotRun
    /\ \/ payload \in Payloads /\ hourData = EmptyDict
       \/ payload = EmptyDict /\ hourData \in HourDatas

Normalize ==
    /\ result = NotRun
    /\ result' = process_weather_data(payload)
    /\ UNCHANGED <<env, payload, hourData, popResult, locations>>
    /\ UNCHANGED cacheVars

ExtractPop ==
    /\ popResult = NotRun
    /\ popResult' = Ok(safe_extract_pop(hourData))
    /\ UNCHANGED <<env, payload, hourData, result, locations>>
    /\ UNCHANGED cacheVars

NextNorm == Normalize \/ ExtractPop

SpecNorm == InitNorm /\ [][NextNorm]_vars

----------------------------------------------------------------------------
(* Configuration: _parse_locations *)

\* The index of the first sep in s, or 0
RECURSIVE Find(_, _)
Find(s, sep) ==
    IF s = << >> THEN 0
    ELSE IF Head(s) = sep THEN 1
    ELSE LET r == Find(Tail(s), sep) IN IF r = 0 THEN 0 ELSE r + 1

\* s.split(sep)
RECURSIVE Split(_, _)
Split(s, sep) ==
    LET i == Find(s, sep)
    IN  IF i = 0 THEN <<s>>
        ELSE <<SubSeq(s, 1, i - 1)>> \o Split(SubSeq(s, i + 1, Len(s)), sep)

\* s.split(sep, 1)
SplitOnce(s, sep) ==
    LET i == Find(s, sep)
    IN  IF i = 0 THEN <<s>> ELSE <<SubSeq(s, 1, i - 1), SubSeq(s, i + 1, Len(s))>>

\* f"Location {idx}" and f"location-{idx}"
LocationName(idx) == [fmt |-> "Location %d", n |-> idx]
LocationId(idx) == [fmt |-> "location-%d", n |-> idx]

\* [c.strip() for c in coords+part.split(",", 1)]: the name coords is bound
\* nowhere, so evaluating it raises NameError before anything is split
CoordsTokens(part, coords_part) == Raise("NameError")

\* One pass of the loop body for clause idx: "skip" (continue), a location to
\* append, or an exception that leaves the function
Clause(idx, rawpart) ==
    LET part == Strip(rawpart)
        hasName == Find(part, ":") # 0
        name_part == Strip(SplitOnce(part, ":")[1])
        name == IF hasName /\ name_part # << >> THEN name_part ELSE LocationName(idx)
        coords_part == IF hasName THEN SplitOnce(part, ":")[2] ELSE part
        tokens == CoordsTokens(part, coords_part)
    IN  IF part = << >> THEN [do |-> "skip"]
        ELSE IF ~tokens.ok
             THEN IF tokens.exc = "ValueError" THEN [do |-> "skip"]
                  ELSE [do |-> "raise", exc |-> tokens.exc]
        ELSE IF Len(tokens.value) # 2 THEN [do |-> "skip"]
        ELSE IF tokens.value[1] = << >> \/ tokens.value[2] = << >> THEN [do |-> "skip"]
        ELSE [do |-> "append",
              loc |-> [id |-> LocationId(idx), name |-> name,
                       lat |-> tokens.value[1], lon |-> tokens.value[2]]]

\* for idx, part in enumerate(parts, start=1), from clause idx on
RECURSIVE Clauses(_, _, _)
Clauses(parts, idx, acc) ==
    IF idx > Len(parts) THEN Ok(acc)
    ELSE LET c == Clause(idx, parts[idx])
         IN  CASE c.do = "skip" -> Clauses(parts, idx + 1, acc)
               [] c.do = "append" -> Clauses(parts, idx + 1, Append(acc, c.loc))
               [] c.do = "raise" -> Raise(c.exc)

_parse_locations ==
    LET raw == getenv("LOCATIONS", << >>)
        lat == getenv("LATITUDE", << >>)
        lon == getenv("LONGITUDE", << >>)
        name == getenv("LOCATION_NAME", <<"Y", "o", "u", "r", " ", "L", "o", "c", "a", "t", "i", "o", "n">>)
    IN  IF raw = << >>
        THEN IF lat = << >> \/ lon = << >> THEN Ok(<< >>)
             ELSE Ok(<<[id |-> LocationId(1), name |-> name, lat |-> lat, lon |-> lon]>>)
        ELSE Clauses(Split(raw, ";"), 1, << >>)

\* The characters of the LOCATIONS strings of the model
Alphabet == {"1", ",", ";", ":", " ", "a"}

RawStrings == UNION {[1..n -> Alphabet] : n \in 0..MaxRawLen}

\* "47.0,10.0;;bad"
Example == <<"4", "7", ".", "0", ",", "1", "0", ".", "0", ";", ";", "b", "a", "d">>

LocEnvs ==
    {[k \in {"LOCATIONS"} |-> r] : r \in RawStrings \cup {Example}}
      \cup {[k \in D |-> <<"1">>] : D \in SUBSET {"LATITUDE", "LONGITUDE", "LOCATION_NAME"}}

InitLoc ==
    /\ env \in LocEnvs
    /\ InitCache
    /\ InitNormIdle
    /\ locations = NotRun

\* index: locations_config = _parse_locations()
ParseLocations ==
    /\ locations = NotRun
    /\ locations' = _parse_locations
    /\ UNCHANGED <<env>>
    /\ UNCHANGED cacheVars
    /\ UNCHANGED normVars

NextLoc == ParseLocations

SpecLoc == InitLoc /\ [][NextLoc]_vars

----------------------------------------------------------------------------
(* Properties of the cache, one request at a time (Spec) *)

AllEmpty == [current |-> EmptyDict, hourly |-> << >>, daily |-> << >>]

\* The entry the latest fetch for the call's key left, as the call found it, is
\* younger than the refresh interval
FoundFresh(t) ==
    /\ th[t].prev # None
    /\ th[t].now - th[t].prev.at < th[t].refresh_interval

\* C1: a call that finds an entry younger than the refresh interval makes no
\* upstream call and returns the cached payload; a call that finds no entry, or
\* one at least refresh interval old, makes exactly one upstream call.
CacheServesFreshEntry ==
    \A t \in Threads :
        th[t].pc = "done" =>
            IF FoundFresh(t)
            THEN /\ fetchCount[KeyOf(t)] = th[t].startCount
                 /\ ~th[t].fetched /\ ~th[t].sent
                 /\ th[t].ret = th[t].prev.raw
            ELSE /\ fetchCount[KeyOf(t)] = th[t].startCount + 1
                 /\ th[t].fetched

\* A third call is served from the cache after the entry expired once and was
\* fetched again
CacheHitAfterRefetch ==
    \E t \in Threads :
        /\ th[t].pc = "done"
        /\ FoundFresh(t)
        /\ fetchCount[KeyOf(t)] = 2
        /\ th[t].ret # EmptyDict

\* C2: a failed fetch is stored like a successful one, with the empty payload
\* and fetched_at = now; later calls within the interval return the empty payload
\* without an upstream call, and the first call at or after expiry makes one.
FailedFetchIsCached ==
    \A t \in Threads :
        th[t].pc = "done" =>
            /\ (th[t].fetched /\ th[t].raw = EmptyDict) =>
                  /\ Get(cache, KeyOf(t), None) = [raw |-> EmptyDict, last_updated |-> th[t].now]
                  /\ th[t].ret = EmptyDict
                  /\ fetchCount[KeyOf(t)] = th[t].startCount + 1
            /\ (th[t].prev # None /\ th[t].prev.raw = EmptyDict) =>
                  IF th[t].now - th[t].prev.at < th[t].refresh_interval
                  THEN /\ th[t].ret = EmptyDict
                       /\ ~th[t].fetched
                       /\ fetchCount[KeyOf(t)] = th[t].startCount
                  ELSE /\ th[t].fetched
                       /\ fetchCount[KeyOf(t)] = th[t].startCount + 1

\* A call returns the cached empty payload of an upstream failure
FailureServedFromCache ==
    \E t \in Threads :
        /\ th[t].pc = "done"
        /\ ~ApiKeyMissing
        /\ FoundFresh(t)
        /\ th[t].prev.raw = EmptyDict
        /\ ~th[t].fetched

\* C3: whether the upstream request times out, fails on the network or answers
\* with an error status, the fetch returns the empty payload and does not raise,
\* get_weather_for_location returns it, and process_weather_data of it is the
\* all-empty record.
UpstreamFailureGivesEmpty ==
    \A t \in Threads :
        th[t].outcome \in {"timeout", "network error", "http 500"} =>
            /\ th[t].pc \in {"store", "done"}
            /\ th[t].raw = EmptyDict
            /\ th[t].pc = "done" =>
                  /\ th[t].ret = EmptyDict
                  /\ process_weather_data(th[t].ret) = Ok(AllEmpty)

\* A call returns after the upstream answered with an error status
ReturnedAfterHttpError ==
    \E t \in Threads : th[t].pc = "done" /\ th[t].outcome = "http 500"

\* The strings of Lats and Lons that are decimal numbers
DecimalStrings == {"47.0", "47.00", "10.0"}

\* C4 as stated: without an API key, or with a coordinate that is missing or no
\* number, the fetch returns the empty payload and sends no request.
FetchChecksKeyAndCoordinates ==
    \A t \in Threads :
        (/\ th[t].fetched
         /\ \/ ApiKeyMissing
            \/ th[t].lat \notin DecimalStrings
            \/ th[t].lon \notin DecimalStrings)
        => /\ ~th[t].sent
           /\ th[t].pc \in {"store", "done"}
           /\ th[t].raw = EmptyDict

\* C4, amended: the fetch checks the API key alone. Without one it returns the
\* empty payload and sends no request; with one it sends the request whatever
\* the coordinates are.
FetchChecksKeyOnly ==
    \A t \in Threads :
        th[t].fetched =>
            IF ApiKeyMissing
            THEN /\ ~th[t].sent
                 /\ th[t].pc \in {"store", "done"}
                 /\ th[t].raw = EmptyDict
                 /\ th[t].outcome = "not sent"
            ELSE th[t].sent

\* A fetch has returned without an API key
FetchedWithoutKey ==
    \E t \in Threads : th[t].fetched /\ ApiKeyMissing /\ th[t].pc = "store"

----------------------------------------------------------------------------
(* Properties of the cache under concurrent requests (SpecConc) *)

\* C9: whatever the interleaving, a call returns a payload that a fetch for its
\* own key produced (the empty payload if that fetch failed), and a cache entry
\* holds the payload and the timestamp of one fetch for its key.
ConcurrentCallsSeeOwnData ==
    /\ \A t \in Threads :
          th[t].pc = "done" =>
              /\ \E f \in upstream : f[1] = KeyOf(t) /\ f[2] = th[t].ret
              /\ th[t].ret # EmptyDict =>
                    th[t].ret.lat = Str(th[t].lat) /\ th[t].ret.lon = Str(th[t].lon)
    /\ \A k \in DOMAIN cache : <<k, cache[k].raw, cache[k].last_updated>> \in upstream

\* Two overlapping calls for one key have both fetched: the redundant fetch
DuplicateFetch ==
    \E k \in Keys :
        /\ fetchCount[k] = 2
        /\ \A t \in Threads : th[t].pc = "done" /\ KeyOf(t) = k /\ th[t].fetched
        /\ th[1].now = th[2].now

\* C10: a step changes the cache only as the store of a call that fetched, and
\* then only the entry of that call's own (lat, lon) strings; every other entry
\* stays as it is and no key leaves the cache.
CacheFrame ==
    [][/\ \A k \in DOMAIN cache : k \in DOMAIN cache'
       /\ cache' # cache =>
             \E t \in Threads :
                 /\ th[t].pc = "store" /\ th[t].fetched
                 /\ th'[t].pc = "done"
                 /\ DOMAIN cache' = DOMAIN cache \cup {KeyOf(t)}
                 /\ \A k \in DOMAIN cache \ {KeyOf(t)} : cache'[k] = cache[k]]_vars

\* "47.0" and "47.00" are cached side by side, with different entries
BothFormatsCached ==
    /\ DOMAIN cache = {<<"47.0", "10.0">>, <<"47.00", "10.0">>}
    /\ cache[<<"47.0", "10.0">>] # cache[<<"47.00", "10.0">>]

----------------------------------------------------------------------------
(* Properties of the normalisation (SpecNorm) *)

\* The percentage of the float n / PopDenom: its hundredfold without the
\* fractional part, kept within 0..100
Percentage(n) ==
    IF n <= 0 THEN 0
    ELSE IF n >= PopDenom THEN 100
    ELSE CHOOSE q \in 0..100 : q * PopDenom <= 100 * n /\ 100 * n < (q + 1) * PopDenom

\* The strings of the model that read as a finite number, and the number
NumericText == [s \in {"0.5", "1"} |-> IF s = "1" THEN PopDenom ELSE PopDenom \div 2]

\* pop is absent, or neither a number nor text that reads as one
NonNumeric(pop) ==
    \/ pop.t \in {"None", "null", "list", "dict", "nan"}
    \/ pop.t = "str" /\ pop.v \notin {"0.5", "1", "inf"}

\* C7: the extracted pop is an integer in 0..100; it is 0 when pop is absent or
\* not numeric, and for a numeric fraction f it is f * 100 rounded toward zero
\* and kept within 0..100. The extraction never raises.
PopIsPercentage ==
    /\ popResult # NotRun =>
          LET pop == Get(hourData, "pop", None)
              r == popResult.value
          IN  /\ popResult.ok
              /\ r \in 0..100
              /\ NonNumeric(pop) => r = 0
              /\ pop.t = "frac" => r = Percentage(pop.v)
              /\ pop.t = "num" => r = Percentage(pop.v * PopDenom)
              /\ (pop.t = "str" /\ pop.v \in DOMAIN NumericText)
                    => r = Percentage(NumericText[pop.v])
    /\ (result # NotRun /\ result.ok) =>
          /\ \A i \in 1..Len(result.value.hourly) : result.value.hourly[i].pop \in 0..100
          /\ \A i \in 1..Len(result.value.daily) : result.value.daily[i].pop \in 0..100

\* A fraction halfway between two percentages has been cut down, not rounded up
PopCutDown ==
    /\ popResult # NotRun
    /\ hourData # EmptyDict
    /\ hourData.pop.t = "frac"
    /\ 2 * ((100 * hourData.pop.v) % PopDenom) >= PopDenom
    /\ popResult.value \in 1..99

\* The upstream lists of a payload
UpstreamHourly == Get(payload, "hourly", List(<< >>)).v
UpstreamDaily == Get(payload, "daily", List(<< >>)).v

\* C6: process_weather_data returns a record with current, hourly and daily for
\* every payload, whatever fields it lacks, and never raises.
NormalizeIsTotal ==
    result # NotRun =>
        /\ result.ok
        /\ DOMAIN result.value = {"current", "hourly", "daily"}

\* C8: the hourly output has min(36, upstream hourly entries) elements and the
\* daily output min(10, upstream daily entries), the i-th made from the i-th
\* upstream entry.
NormalizeKeepsPrefix ==
    result # NotRun =>
        /\ result.ok
        /\ Len(result.value.hourly) = Min(MaxHourly, Len(UpstreamHourly))
        /\ Len(result.value.daily) = Min(MaxDaily, Len(UpstreamDaily))
        /\ \A i \in 1..Len(result.value.hourly) :
              result.value.hourly[i] = ProcessHour(UpstreamHourly[i]).value
        /\ \A i \in 1..Len(result.value.daily) :
              result.value.daily[i] = ProcessDay(UpstreamDaily[i]).value

----------------------------------------------------------------------------
(* Properties of the location resolver (SpecLoc) *)

\* The part of a clause after its first colon, or the whole clause
CoordinatePart(part) ==
    IF Find(part, ":") = 0 THEN part ELSE SplitOnce(part, ":")[2]

\* The clause's coordinate part is exactly two non-empty comma-separated tokens
ValidClause(rawpart) ==
    LET tokens == Split(CoordinatePart(Strip(rawpart)), ",")
    IN  /\ Len(tokens) = 2
        /\ Strip(tokens[1]) # << >>
        /\ Strip(tokens[2]) # << >>

\* The positions of the valid clauses, in order
RECURSIVE ValidPositions(_, _)
ValidPositions(parts, idx) ==
    IF idx > Len(parts) THEN << >>
    ELSE (IF ValidClause(parts[idx]) THEN <<idx>> ELSE << >>)
            \o ValidPositions(parts, idx + 1)

\* C5: for a non-empty LOCATIONS string the resolver does not raise and returns,
\* in clause order, one location per valid clause, with the clause's position
\* among all clauses in its id.
ResolverKeepsValidClauses ==
    (locations # NotRun /\ getenv("LOCATIONS", << >>) # << >>) =>
        /\ locations.ok
        /\ [i \in 1..Len(locations.value) |-> locations.value[i].id]
              = [i \in 1..Len(ValidPositions(Split(env["LOCATIONS"], ";"), 1)) |->
                    LocationId(ValidPositions(Split(env["LOCATIONS"], ";"), 1)[i])]

====
